---- MODULE Spec2Model ----
(***************************************************************************)
(* A model of the MediaPipe detection workers of ddonyo/camera:            *)
(*   backend/src/hand-detection.py  (HandDetector, main)                   *)
(*   backend/src/pose-detection.py  (PoseDetector, main)                   *)
(*                                                                         *)
(* The two workers share one main loop: a length-prefixed request stream   *)
(* on stdin, one JSON line per response on stdout.  The variable `worker`  *)
(* says which of the two programs runs.                                    *)
(*                                                                         *)
(* Abstractions.                                                           *)
(*  - A byte is a natural number; stdin is a sequence of bytes.            *)
(*  - JSON text is abstracted by a code book: the three bytes              *)
(*    <<123, i, 125>> ("{", i, "}") are the text of the JSON object        *)
(*    Catalog[i]; <<53>> ("5") is valid JSON that is not an object;        *)
(*    a text holding byte 255 is not valid UTF-8; every other text is      *)
(*    not valid JSON.                                                      *)
(*  - An encoded image is <<77, w, h>> (w, h >= 1); cv2.imdecode returns   *)
(*    None for every other byte string.                                    *)
(*  - Floats are fixed-point: coordinates and crop descriptors in units    *)
(*    of 1/Den, confidences in tenths.  int() truncates toward zero.       *)
(*  - time.time() is the constant "t".                                     *)
(***************************************************************************)
EXTENDS Integers, Sequences, FiniteSets, TLC

(***************************************************************************)
(* Bounds of the model.                                                    *)
(***************************************************************************)
\* messages the client writes before it closes the stream
MaxMsgs == 2
\* bytes the pipe holds unread before a write blocks
PipeCap == 14
\* resolution of the fixed-point coordinates (units of 1/Den)
Den == 4
\* largest image side of the crop specification
MaxDim == 3
\* crop descriptors of the crop specification range over -MaxNum..MaxNum (/Den)
MaxNum == 5
\* largest crop offset of the frame specification (/Den)
MaxOffset == 2
\* landmark heights drawn for the gesture classifier: 0..MaxY
MaxY == 1

(***************************************************************************)
(* Program constants.                                                      *)
(***************************************************************************)
\* sys.stdin.buffer.read(4)
LenBytes == 4
\* config.get("max_num_hands", 2)
DefaultMaxNumHands == 2
\* config.get("min_detection_confidence", 0.5), in tenths
DefaultMinDetectionConfidence == 5
\* config.get("min_tracking_confidence", 0.5), in tenths
DefaultMinTrackingConfidence == 5
\* config.get("model_complexity", 1)
DefaultModelComplexity == 1
\* MediaPipe hand landmark indices 0..20
NumHandLandmarks == 21

Workers == {"hand", "pose"}

(***************************************************************************)
(* Small helpers.                                                          *)
(***************************************************************************)
Min(a, b) == IF a <= b THEN a ELSE b
Max(a, b) == IF a >= b THEN a ELSE b

\* Python's int() of the rational n/d (d > 0): truncation toward zero.
Trunc(n, d) == IF n >= 0 THEN n \div d ELSE -((-n) \div d)

\* the first n bytes of a byte string (all of it when it is shorter)
Take(s, n) == SubSeq(s, 1, Min(n, Len(s)))

RECURSIVE SeqMin(_)
SeqMin(s) == IF Len(s) = 1 THEN s[1] ELSE Min(s[1], SeqMin(Tail(s)))
RECURSIVE SeqMax(_)
SeqMax(s) == IF Len(s) = 1 THEN s[1] ELSE Max(s[1], SeqMax(Tail(s)))

(***************************************************************************)
(* Headers: the JSON objects of the code book.  An absent key is the kind  *)
(* "absent"; header.get(key) then gives None or the stated default.        *)
(***************************************************************************)
None == "None"
EmptyDict == [k \in {} |-> 0]

DL(k, v) == [k |-> k, v |-> v]
Crop(k, ox, oy, sx, sy) == [k |-> k, offsetX |-> ox, offsetY |-> oy, scaleX |-> sx, scaleY |-> sy]
NoCrop == Crop("absent", 0, 0, 0, 0)
Cfg(k, d) == [k |-> k, d |-> d]
NoCfg == Cfg("absent", EmptyDict)

Hdr(type, format, dl, crop, roi, cfg) ==
    [type |-> type, format |-> format, data_length |-> dl,
     crop_info |-> crop, roi_info |-> roi, config |-> cfg]

Plain(type) == Hdr(type, None, DL("absent", 0), NoCrop, NoCrop, NoCfg)
FrameHdr(format, dl, crop, roi) == Hdr("process_frame", format, dl, crop, roi, NoCfg)
ConfigHdr(cfg) == Hdr("config", None, DL("absent", 0), NoCrop, NoCrop, cfg)

\* a region of interest: the top left quarter of the frame
SomeRoi == Crop("dict", 0, 0, Den \div 2, Den \div 2)

Catalog ==
    << Plain("ping"),                                                    \* 1
       ConfigHdr(NoCfg),                                                 \* 2
       ConfigHdr(Cfg("dict", [max_num_hands |-> 1,
                              min_detection_confidence |-> 7,
                              model_complexity |-> 2])),                 \* 3
       ConfigHdr(Cfg("nondict", EmptyDict)),                             \* 4
       Plain("foo"),                                                     \* 5
       Plain(None),                                                      \* 6
       FrameHdr("binary", DL("int", 3), NoCrop, NoCrop),                 \* 7
       FrameHdr("binary", DL("int", 3), Crop("badkeys", 0, 0, 0, 0), NoCrop), \* 8
       FrameHdr("binary", DL("int", 1), NoCrop, NoCrop),                 \* 9
       FrameHdr("binary", DL("absent", 0), NoCrop, NoCrop),              \* 10
       FrameHdr("base64", DL("absent", 0), NoCrop, NoCrop),              \* 11
       FrameHdr("binary", DL("str", 0), NoCrop, NoCrop),                 \* 12
       FrameHdr("binary", DL("int", 0), NoCrop, NoCrop) >>               \* 13

(***************************************************************************)
(* The wire format.                                                        *)
(***************************************************************************)
\* n.to_bytes(4, 'little'), what the client writes in front of a header
LE4(n) == << n % 256, (n \div 256) % 256, (n \div 65536) % 256, (n \div 16777216) % 256 >>

\* int.from_bytes(header_length_bytes, 'little')
FromBytesLittle(b) == b[1] + 256 * b[2] + 65536 * b[3] + 16777216 * b[4]

ObjText(i) == << 123, i, 125 >>
NonObjectText == << 53 >>
BadJsonText == << 63, 63 >>
BadUtf8Text == << 255 >>
EmptyText == << >>

\* header_bytes.decode('utf-8'), then json.loads
JsonLoads(bs) ==
    IF \E j \in 1..Len(bs) : bs[j] = 255
      THEN [k |-> "UnicodeDecodeError", v |-> Plain(None)]
    ELSE IF Len(bs) = 3 /\ bs[1] = 123 /\ bs[3] = 125 /\ bs[2] \in 1..Len(Catalog)
      THEN [k |-> "object", v |-> Catalog[bs[2]]]
    ELSE IF bs = NonObjectText
      THEN [k |-> "nonobject", v |-> Plain(None)]
    ELSE [k |-> "JSONDecodeError", v |-> Plain(None)]

\* cv2.imdecode(np_array, cv2.IMREAD_COLOR)
NoImage == [ok |-> FALSE, width |-> 0, height |-> 0]
ImageBytes(w, h) == << 77, w, h >>
Imdecode(bs) ==
    IF Len(bs) = 3 /\ bs[1] = 77 /\ bs[2] >= 1 /\ bs[3] >= 1
      THEN [ok |-> TRUE, width |-> bs[2], height |-> bs[3]]
      ELSE NoImage

\* what the client writes for one message
Msg(text, payload) == [text |-> text, payload |-> payload]
Wire(m) == LE4(Len(m.text)) \o m.text \o m.payload

(***************************************************************************)
(* The detector session (HandDetector.__init__, PoseDetector.__init__).    *)
(* `id` is the identity of the Python object: every construction gives a   *)
(* new one.  A field the worker's class does not have is 0.                *)
(***************************************************************************)
\* getattr(self, 'stop_debug_info', None) before check_stop_condition has set it
NoSdi ==
    [set |-> FALSE, left_invisible |-> 0, left_total |-> 0, right_invisible |-> 0,
     right_total |-> 0, left_gone |-> FALSE, right_gone |-> FALSE, should_stop |-> FALSE]

CfgGet(d, key, default) == IF key \in DOMAIN d THEN d[key] ELSE default

NewDetector(w, d, id) ==
    [id |-> id,
     max_num_hands |->
         IF w = "hand" THEN CfgGet(d, "max_num_hands", DefaultMaxNumHands) ELSE 0,
     min_detection_confidence |->
         CfgGet(d, "min_detection_confidence", DefaultMinDetectionConfidence),
     min_tracking_confidence |->
         CfgGet(d, "min_tracking_confidence", DefaultMinTrackingConfidence),
     model_complexity |->
         IF w = "pose" THEN CfgGet(d, "model_complexity", DefaultModelComplexity) ELSE 0,
     stop_debug_info |-> NoSdi]

(***************************************************************************)
(* The crop of process_frame: pixel bounds, truncated, then clamped.       *)
(***************************************************************************)
RawRect(c, width, height) ==
    [x1 |-> Trunc(c.offsetX * width, Den),
     y1 |-> Trunc(c.offsetY * height, Den),
     x2 |-> Trunc((c.offsetX + c.scaleX) * width, Den),
     y2 |-> Trunc((c.offsetY + c.scaleY) * height, Den)]

\* a clamp that forgets the lower bound x1 + 1 of x2 and y2
ClampRectNoFloor(r, width, height) ==
    LET x1 == Max(0, Min(r.x1, width - 1))
        y1 == Max(0, Min(r.y1, height - 1))
    IN  [x1 |-> x1, y1 |-> y1, x2 |-> Min(r.x2, width), y2 |-> Min(r.y2, height)]

ClampRect(r, width, height) ==
    LET x1 == Max(0, Min(r.x1, width - 1))
        y1 == Max(0, Min(r.y1, height - 1))
    IN  [x1 |-> x1, y1 |-> y1,
         x2 |-> Max(x1 + 1, Min(r.x2, width)),
         y2 |-> Max(y1 + 1, Min(r.y2, height))]

CropRect(c, width, height) == ClampRect(RawRect(c, width, height), width, height)

\* bool(crop_info): None and {} are falsy
CropTruthy(c) == c.k \in {"dict", "badkeys"}

\* image[y1:y2, x1:x2]
Slice(image, r) == [ok |-> TRUE, width |-> r.x2 - r.x1, height |-> r.y2 - r.y1]

\* the image handed to the landmark model
Analyzed(image, c) ==
    IF CropTruthy(c) THEN Slice(image, CropRect(c, image.width, image.height)) ELSE image

(***************************************************************************)
(* The landmark model (self.hands.process): a black box.  Its output for   *)
(* one hand is 21 landmarks in the normalized space of the analyzed image. *)
(***************************************************************************)
Pt(x, y) == [x |-> x, y |-> y, z |-> 0]

\* landmark indices (0-based, as in the source) of the finger tips that a
\* shape holds above their MCP joints
Raised(shape) ==
    CASE shape = "v"    -> {8, 12}
      [] shape = "open" -> {8, 12, 16, 20}
      [] OTHER          -> {}

\* a hand whose joints sit at (bx, by); a raised tip is one unit higher
HandAt(bx, by, shape, label) ==
    [label |-> label, score |-> 9,
     landmark |-> [i \in 1..NumHandLandmarks |->
                     Pt(bx, IF (i - 1) \in Raised(shape) THEN by - 1 ELSE by)]]

(***************************************************************************)
(* HandDetector.detect_v_gesture.  landmarks[i] of the source is           *)
(* landmarks[i + 1] here; an IndexError gives False.                       *)
(***************************************************************************)
Lm(landmarks, i) == landmarks[i + 1]

\* a ring finger that counts as folded only when its tip is strictly lower
detect_v_gesture_strict(landmarks) ==
    IF Len(landmarks) < NumHandLandmarks THEN FALSE
    ELSE LET index_extended == Lm(landmarks, 8).y < Lm(landmarks, 5).y
             middle_extended == Lm(landmarks, 12).y < Lm(landmarks, 9).y
             ring_folded == Lm(landmarks, 16).y > Lm(landmarks, 13).y
             pinky_folded == Lm(landmarks, 20).y >= Lm(landmarks, 17).y
         IN  index_extended /\ middle_extended /\ ring_folded /\ pinky_folded

detect_v_gesture(landmarks) ==
    IF Len(landmarks) < NumHandLandmarks THEN FALSE
    ELSE LET index_extended == Lm(landmarks, 8).y < Lm(landmarks, 5).y
             middle_extended == Lm(landmarks, 12).y < Lm(landmarks, 9).y
             ring_folded == Lm(landmarks, 16).y >= Lm(landmarks, 13).y
             pinky_folded == Lm(landmarks, 20).y >= Lm(landmarks, 17).y
         IN  index_extended /\ middle_extended /\ ring_folded /\ pinky_folded

(***************************************************************************)
(* HandDetector.process_frame with format = 'numpy'.                       *)
(***************************************************************************)
\* a remap of a crop-space landmark to the full frame (units of 1/Den^2),
\* which the source does not apply
RemapPt(p, c) ==
    [x |-> c.offsetX * Den + p.x * c.scaleX,
     y |-> c.offsetY * Den + p.y * c.scaleY, z |-> p.z]

\* a landmark moved back into the full frame before it is appended
OutPtRemapped(p, c) ==
    [x |-> c.offsetX + Trunc(p.x * c.scaleX, Den),
     y |-> c.offsetY + Trunc(p.y * c.scaleY, Den), z |-> p.z]

\* the landmark as appended to the result: normalized coordinates as-is
OutPt(p, c) == [x |-> p.x, y |-> p.y, z |-> p.z]

Xs(landmarks) == [i \in 1..Len(landmarks) |-> landmarks[i].x]
Ys(landmarks) == [i \in 1..Len(landmarks) |-> landmarks[i].y]

\* center is the midpoint of the box: kept doubled, in units of 1/(2 Den)
HandInfo(hand, c) ==
    LET landmarks == [i \in 1..Len(hand.landmark) |-> OutPt(hand.landmark[i], c)]
        bbox == [x1 |-> SeqMin(Xs(landmarks)), y1 |-> SeqMin(Ys(landmarks)),
                 x2 |-> SeqMax(Xs(landmarks)), y2 |-> SeqMax(Ys(landmarks))]
    IN  [handedness |-> hand.label,
         confidence |-> hand.score,
         bbox |-> bbox,
         center2 |-> [x |-> bbox.x1 + bbox.x2, y |-> bbox.y1 + bbox.y2],
         landmarks |-> landmarks,
         is_v_gesture |-> detect_v_gesture(landmarks)]

ExcResult(e) == [success |-> FALSE, error |-> << e >>, timestamp |-> "t"]

\* does process_frame reach self.hands.process / self.pose.process ?
ReachesModel(c) == c.k # "badkeys"

\* a result whose landmarks are moved into the region of interest when the
\* request names one
HandProcessFrameRoi(image, c, roi, results) ==
    IF ~ReachesModel(c) THEN ExcResult("KeyError")
    ELSE IF \E i \in 1..Len(results) : Len(results[i].landmark) = 0
      THEN ExcResult("ValueError")
    ELSE [success |-> TRUE,
          hands |-> [i \in 1..Len(results) |->
                       IF roi.k = "dict"
                         THEN HandInfo([results[i] EXCEPT !.landmark =
                                          [j \in 1..Len(@) |-> OutPtRemapped(@[j], roi)]], c)
                         ELSE HandInfo(results[i], c)],
          timestamp |-> "t"]

HandProcessFrame(image, c, roi, results) ==
    IF ~ReachesModel(c) THEN ExcResult("KeyError")
    ELSE IF \E i \in 1..Len(results) : Len(results[i].landmark) = 0
      THEN ExcResult("ValueError")
    ELSE [success |-> TRUE,
          hands |-> [i \in 1..Len(results) |-> HandInfo(results[i], c)],
          timestamp |-> "t"]

(***************************************************************************)
(* PoseDetector.  A pose landmark is [x, y, z, visibility]; visibility is  *)
(* in hundredths.  results.pose_landmarks is None ("present" is FALSE) or  *)
(* a landmark list, 33 long when MediaPipe built it; a shorter list makes  *)
(* landmarks.landmark[i] raise IndexError.  Landmark ids are those of      *)
(* mp.solutions.pose.PoseLandmark.                                         *)
(***************************************************************************)
NOSE == 0
LEFT_EYE_INNER == 1
LEFT_EYE == 2
LEFT_EYE_OUTER == 3
RIGHT_EYE_INNER == 4
RIGHT_EYE == 5
RIGHT_EYE_OUTER == 6
LEFT_EAR == 7
RIGHT_EAR == 8
MOUTH_LEFT == 9
MOUTH_RIGHT == 10
LEFT_SHOULDER == 11
RIGHT_SHOULDER == 12
LEFT_WRIST == 15
RIGHT_WRIST == 16
LEFT_HIP == 23
RIGHT_HIP == 24
LEFT_KNEE == 25
RIGHT_KNEE == 26
LEFT_ANKLE == 27
RIGHT_ANKLE == 28
NumPoseLandmarks == 33

\* landmark.visibility > 0.7
GoodVisibility == 70
\* landmark.visibility < 0.3
LowVisibility == 30
\* landmark.visibility > 0.5
BoxVisibility == 50

key_landmarks ==
    << NOSE, LEFT_SHOULDER, RIGHT_SHOULDER, LEFT_HIP, RIGHT_HIP,
       LEFT_KNEE, RIGHT_KNEE, LEFT_ANKLE, RIGHT_ANKLE >>
left_side_landmarks ==
    << LEFT_EYE, LEFT_EAR, LEFT_SHOULDER, LEFT_WRIST, LEFT_HIP, LEFT_KNEE >>
right_side_landmarks ==
    << RIGHT_EYE, RIGHT_EAR, RIGHT_SHOULDER, RIGHT_WRIST, RIGHT_HIP, RIGHT_KNEE >>
front_landmarks ==
    << NOSE, LEFT_EYE, RIGHT_EYE, LEFT_EYE_INNER, RIGHT_EYE_INNER, LEFT_EYE_OUTER,
       RIGHT_EYE_OUTER, LEFT_EAR, RIGHT_EAR, MOUTH_LEFT, MOUTH_RIGHT >>
back_landmarks == << LEFT_SHOULDER, RIGHT_SHOULDER, LEFT_HIP, RIGHT_HIP >>

PosePt(x, y, v) == [x |-> x, y |-> y, z |-> 0, visibility |-> v]
NoPose == [present |-> FALSE, landmark |-> << >>]
PoseOf(lms) == [present |-> TRUE, landmark |-> lms]

\* does landmarks.landmark[i] raise for some id of ids ?
Raises(lms, ids) == \E j \in 1..Len(ids) : ids[j] + 1 > Len(lms)

RECURSIVE SumSeq(_)
SumSeq(s) == IF s = << >> THEN 0 ELSE s[1] + SumSeq(Tail(s))

\* the visibilities of the landmarks ids, in order
VisOf(lms, ids) == [j \in 1..Len(ids) |-> lms[ids[j] + 1].visibility]
CountIf(s, P(_)) == Cardinality({ j \in 1..Len(s) : P(s[j]) })

(***************************************************************************)
(* check_full_body_visible.  The result is a bare bool ("bool") or a pair  *)
(* ("pair"); confidence is num / den hundredths.                           *)
(***************************************************************************)
Ratio(num, den) == [num |-> num, den |-> den]
FullBody(k, full, conf) == [k |-> k, full |-> full, conf |-> conf]

\* a landmark at exactly the threshold counted as visible
check_full_body_visible_ge(landmarks) ==
    IF ~landmarks.present THEN FullBody("bool", FALSE, Ratio(0, 1))
    ELSE IF Raises(landmarks.landmark, key_landmarks)
      THEN FullBody("pair", FALSE, Ratio(0, 1))
    ELSE LET vis == VisOf(landmarks.landmark, key_landmarks)
             IsGood(v) == v >= GoodVisibility
             visible_count == CountIf(vis, IsGood)
             total_confidence ==
                 SumSeq([j \in 1..Len(vis) |-> IF IsGood(vis[j]) THEN vis[j] ELSE 0])
             is_full_body == visible_count * 10 >= Len(key_landmarks) * 8
         IN  FullBody("pair", is_full_body, Ratio(total_confidence, Len(key_landmarks)))

check_full_body_visible(landmarks) ==
    IF ~landmarks.present THEN FullBody("bool", FALSE, Ratio(0, 1))
    ELSE IF Raises(landmarks.landmark, key_landmarks)
      THEN FullBody("pair", FALSE, Ratio(0, 1))
    ELSE LET vis == VisOf(landmarks.landmark, key_landmarks)
             IsGood(v) == v > GoodVisibility
             visible_count == CountIf(vis, IsGood)
             total_confidence ==
                 SumSeq([j \in 1..Len(vis) |-> IF IsGood(vis[j]) THEN vis[j] ELSE 0])
             \* visible_count >= len(key_landmarks) * 0.8
             is_full_body == visible_count * 10 >= Len(key_landmarks) * 8
         IN  FullBody("pair", is_full_body, Ratio(total_confidence, Len(key_landmarks)))

(***************************************************************************)
(* check_stop_condition.  It returns should_stop and, on its normal path   *)
(* only, assigns self.stop_debug_info: "sdi" is the attribute after the    *)
(* call, given its value before the call.                                  *)
(***************************************************************************)
\* a stop that needs both sides gone
check_stop_condition_both(landmarks, sdi) ==
    IF ~landmarks.present THEN [stop |-> TRUE, sdi |-> sdi]
    ELSE IF Raises(landmarks.landmark, left_side_landmarks)
            \/ Raises(landmarks.landmark, right_side_landmarks)
      THEN [stop |-> TRUE, sdi |-> sdi]
    ELSE LET IsLow(v) == v < LowVisibility
             left_side_invisible_count ==
                 CountIf(VisOf(landmarks.landmark, left_side_landmarks), IsLow)
             right_side_invisible_count ==
                 CountIf(VisOf(landmarks.landmark, right_side_landmarks), IsLow)
             left_side_gone == left_side_invisible_count = Len(left_side_landmarks)
             right_side_gone == right_side_invisible_count = Len(right_side_landmarks)
             should_stop == left_side_gone /\ right_side_gone
         IN  [stop |-> should_stop,
              sdi |-> [set |-> TRUE,
                       left_invisible |-> left_side_invisible_count,
                       left_total |-> Len(left_side_landmarks),
                       right_invisible |-> right_side_invisible_count,
                       right_total |-> Len(right_side_landmarks),
                       left_gone |-> left_side_gone,
                       right_gone |-> right_side_gone,
                       should_stop |-> should_stop]]

check_stop_condition(landmarks, sdi) ==
    IF ~landmarks.present THEN [stop |-> TRUE, sdi |-> sdi]
    ELSE IF Raises(landmarks.landmark, left_side_landmarks)
            \/ Raises(landmarks.landmark, right_side_landmarks)
      THEN [stop |-> TRUE, sdi |-> sdi]
    ELSE LET IsLow(v) == v < LowVisibility
             left_side_invisible_count ==
                 CountIf(VisOf(landmarks.landmark, left_side_landmarks), IsLow)
             right_side_invisible_count ==
                 CountIf(VisOf(landmarks.landmark, right_side_landmarks), IsLow)
             left_side_gone == left_side_invisible_count = Len(left_side_landmarks)
             right_side_gone == right_side_invisible_count = Len(right_side_landmarks)
             should_stop == left_side_gone \/ right_side_gone
         IN  [stop |-> should_stop,
              sdi |-> [set |-> TRUE,
                       left_invisible |-> left_side_invisible_count,
                       left_total |-> Len(left_side_landmarks),
                       right_invisible |-> right_side_invisible_count,
                       right_total |-> Len(right_side_landmarks),
                       left_gone |-> left_side_gone,
                       right_gone |-> right_side_gone,
                       should_stop |-> should_stop]]

(***************************************************************************)
(* detect_back_view.  With fsum the sum of the 11 front visibilities and   *)
(* bsum that of the 4 back ones (hundredths),                              *)
(*   back_confidence = (1 - fsum/1100) * 0.7 + (bsum/400) * 0.3            *)
(*                   = (28 * (1100 - fsum) + 33 * bsum) / 44000,           *)
(* kept as that numerator over ConfDen; 0.6 is 26400 / 44000.              *)
(***************************************************************************)
\* round(num / den) to the nearest integer, ties to even: f"{x:.2f}"
Round(num, den) ==
    LET q == num \div den
        r2 == 2 * (num % den)
    IN  IF r2 < den THEN q
        ELSE IF r2 > den THEN q + 1
        ELSE IF q % 2 = 0 THEN q ELSE q + 1

BackView(is_back, conf, fv, bv, reason) ==
    [is_back_view |-> is_back, confidence |-> conf, front_visibility |-> fv,
     back_visibility |-> bv, reason |-> reason]

\* a back view already at the threshold
detect_back_view_ge(landmarks) ==
    IF ~landmarks.present
      THEN [is_back_view |-> FALSE, confidence |-> Ratio(0, 1), reason |-> << "no_landmarks" >>]
    ELSE IF Raises(landmarks.landmark, front_landmarks)
            \/ Raises(landmarks.landmark, back_landmarks)
      THEN [is_back_view |-> FALSE, confidence |-> Ratio(0, 1), reason |-> << "error" >>]
    ELSE LET front_visibility_sum == SumSeq(VisOf(landmarks.landmark, front_landmarks))
             back_visibility_sum == SumSeq(VisOf(landmarks.landmark, back_landmarks))
             front_count == Len(front_landmarks)
             back_count == Len(back_landmarks)
             den == 10 * front_count * back_count * 100
             back_confidence ==
                 7 * (100 * front_count - front_visibility_sum) * back_count
                   + 3 * back_visibility_sum * front_count
         IN  BackView(back_confidence * 10 >= 6 * den,
                      Ratio(back_confidence, den),
                      Ratio(front_visibility_sum, front_count),
                      Ratio(back_visibility_sum, back_count),
                      << "front_vis", Round(front_visibility_sum, front_count),
                         "back_vis", Round(back_visibility_sum, back_count) >>)

detect_back_view(landmarks) ==
    IF ~landmarks.present
      THEN [is_back_view |-> FALSE, confidence |-> Ratio(0, 1), reason |-> << "no_landmarks" >>]
    ELSE IF Raises(landmarks.landmark, front_landmarks)
            \/ Raises(landmarks.landmark, back_landmarks)
      THEN [is_back_view |-> FALSE, confidence |-> Ratio(0, 1), reason |-> << "error" >>]
    ELSE LET front_visibility_sum == SumSeq(VisOf(landmarks.landmark, front_landmarks))
             back_visibility_sum == SumSeq(VisOf(landmarks.landmark, back_landmarks))
             front_count == Len(front_landmarks)
             back_count == Len(back_landmarks)
             den == 10 * front_count * back_count * 100
             back_confidence ==
                 7 * (100 * front_count - front_visibility_sum) * back_count
                   + 3 * back_visibility_sum * front_count
         IN  BackView(back_confidence * 10 > 6 * den,
                      Ratio(back_confidence, den),
                      Ratio(front_visibility_sum, front_count),
                      Ratio(back_visibility_sum, back_count),
                      << "front_vis", Round(front_visibility_sum, front_count),
                         "back_vis", Round(back_visibility_sum, back_count) >>)

(***************************************************************************)
(* get_body_bbox: the box of the landmarks with visibility > 0.5, or None. *)
(***************************************************************************)
NoBox == [present |-> FALSE, x1 |-> 0, y1 |-> 0, x2 |-> 0, y2 |-> 0]

get_body_bbox(landmarks) ==
    IF ~landmarks.present THEN NoBox
    ELSE LET vis == SelectSeq(landmarks.landmark, LAMBDA l : l.visibility > BoxVisibility)
         IN  IF vis = << >> THEN NoBox
             ELSE [present |-> TRUE,
                   x1 |-> SeqMin(Xs(vis)), y1 |-> SeqMin(Ys(vis)),
                   x2 |-> SeqMax(Xs(vis)), y2 |-> SeqMax(Ys(vis))]

(***************************************************************************)
(* PoseDetector.process_frame with format = 'numpy': the result, and the   *)
(* detector's stop_debug_info after the call.                              *)
(***************************************************************************)
PoseInfo(results, sdi) ==
    IF ~results.present
      THEN [detected |-> FALSE, full_body_visible |-> FALSE, confidence |-> Ratio(0, 1),
            bbox |-> NoBox, landmarks |-> << >>]
      ELSE LET fb == check_full_body_visible(results)
               st == check_stop_condition(results, sdi)
           IN  [detected |-> TRUE,
                full_body_visible |-> fb.full,
                should_stop_recording |-> st.stop,
                confidence |-> fb.conf,
                bbox |-> get_body_bbox(results),
                landmarks |-> results.landmark,
                back_view |-> detect_back_view(results),
                stop_debug |-> st.sdi]

\* a classifier whose IndexError is not caught at its boundary
PoseProcessFrameRaising(image, c, results, sdi) ==
    IF ~ReachesModel(c) THEN ExcResult("KeyError")
    ELSE IF results.present /\ Raises(results.landmark, key_landmarks)
      THEN ExcResult("IndexError")
    ELSE [success |-> TRUE, pose |-> PoseInfo(results, sdi), timestamp |-> "t"]

PoseProcessFrame(image, c, results, sdi) ==
    IF ~ReachesModel(c) THEN ExcResult("KeyError")
    ELSE IF results.present /\ check_full_body_visible(results).k = "bool"
      THEN ExcResult("TypeError")
    ELSE [success |-> TRUE, pose |-> PoseInfo(results, sdi), timestamp |-> "t"]

\* self.stop_debug_info after process_frame
SdiAfter(c, results, sdi) ==
    IF ReachesModel(c) /\ results.present THEN check_stop_condition(results, sdi).sdi
    ELSE sdi

(***************************************************************************)
(* Response lines (json.dumps of a dict, one per print).  An error text    *)
(* is a tuple: the fixed part, then what the f-string interpolates.        *)
(***************************************************************************)
\* a health check that echoes the request instead
PongEcho == [success |-> TRUE, message |-> "ping"]
Pong == [success |-> TRUE, message |-> "pong"]
ConfigUpdated == [success |-> TRUE, message |-> "config updated"]
Err(e) == [error |-> e]
InvalidHeader == Err(<< "Invalid header JSON" >>)
Incomplete == Err(<< "Incomplete image data" >>)
EmptyImage == Err(<< "Empty image data" >>)
DecodeFailed == Err(<< "Failed to decode image" >>)
\* an error text that reads a key the header never has
UnknownTypeAnon(t) == Err(<< "Unknown command type", None >>)
UnknownType(t) == Err(<< "Unknown command type", t >>)
FatalError(e) == Err(<< "Fatal error", e >>)

(***************************************************************************)
(* The messages a client sends, and what the landmark model may answer.    *)
(***************************************************************************)
\* the one image of the request stream: 4 x 4 pixels
TheImage == ImageBytes(4, 4)

PayloadOf(h) ==
    IF h.type = "process_frame" /\ h.format = "binary" /\ h.data_length.k = "int"
      THEN IF h.data_length.v = 3 THEN TheImage
           ELSE [i \in 1..h.data_length.v |-> 0]
      ELSE << >>

Menu ==
    { Msg(ObjText(i), PayloadOf(Catalog[i])) : i \in 1..Len(Catalog) }
      \cup { Msg(NonObjectText, << >>), Msg(BadJsonText, << >>),
             Msg(BadUtf8Text, << >>), Msg(EmptyText, << >>) }

HandV == HandAt(1, 2, "v", "Left")
HandFist == HandAt(Den, 0, "fist", "Right")

\* 33 landmarks at (bx, by); the landmarks of ids low are barely visible
PoseAt(bx, by, low) ==
    PoseOf([i \in 1..NumPoseLandmarks |->
              PosePt(bx, by, IF \E j \in 1..Len(low) : low[j] = i - 1 THEN 10 ELSE 90)])
PoseFull == PoseAt(2, 2, << >>)
PoseLeftGone == PoseAt(1, 3, left_side_landmarks)
\* a landmark list cut short: every classifier that indexes it raises
PoseShort == PoseOf(<< PosePt(0, 0, 90) >>)

\* the first n landmarks of a pose in full view: the classifiers that index
\* past n raise, the others do not
PoseCut(n) == PoseOf(SubSeq(PoseFull.landmark, 1, n))
\* a hand of 5 landmarks: detect_v_gesture raises on landmarks[8]
HandShort ==
    [label |-> "Left", score |-> 9,
     landmark |-> << Pt(1, 1), Pt(2, 1), Pt(2, 2), Pt(1, 3), Pt(0, 2) >>]

\* results.pose_landmarks
PoseOutputs == { NoPose, PoseFull, PoseLeftGone, PoseShort }

\* results.multi_hand_landmarks zipped with results.multi_handedness
HandOutputs(det) ==
    { r \in { << >>, << HandV >>, << HandV, HandFist >> } : Len(r) <= det.max_num_hands }

ModelOutputs(w, det) == IF w = "hand" THEN HandOutputs(det) ELSE PoseOutputs

(***************************************************************************)
(* State.                                                                  *)
(***************************************************************************)
VARIABLES
    worker,         \* which program runs: "hand" or "pose"
    inp,            \* every byte written to the worker's stdin so far
    closed,         \* the client has closed the stream
    sent,           \* history: the complete messages written, in order
    tail,           \* history: << m, k >> when the client wrote only k bytes of m
    pos,            \* bytes of inp the worker has consumed
    pc,             \* where main() is: "read_len", "read_hdr", "read_payload",
                    \* "done" (loop left, exit status 0), "exit1" (sys.exit(1))
    nmsg,           \* length prefixes read in full: the ordinal of the message in hand
    msgStart,       \* offset of the length prefix of the message in hand
    header_length,  \* main's header_length
    header,         \* main's header (a parsed object)
    detector,       \* main's detector
    out,            \* the lines printed to stdout
    outMsg,         \* history: for each line of out, the ordinal of the message in hand
    calls,          \* history: the invocations of the landmark model
    fin,            \* function specifications: the inputs drawn
    fout            \* function specifications: the result computed from them

mainVars == << worker, inp, closed, sent, tail, pos, pc, nmsg, msgStart,
               header_length, header, detector, out, outMsg, calls >>
funVars == << fin, fout >>
vars == << mainVars, funVars >>

Idle == [k |-> "idle"]

Init ==
    /\ worker \in Workers
    /\ inp = << >>
    /\ closed = FALSE
    /\ sent = << >>
    /\ tail = << >>
    /\ pos = 0
    /\ pc = "read_len"
    /\ nmsg = 0
    /\ msgStart = 0
    /\ header_length = 0
    /\ header = Plain(None)
    /\ detector = NewDetector(worker, EmptyDict, 0)
    /\ out = << >>
    /\ outMsg = << >>
    /\ calls = << >>
    /\ fin = Idle
    /\ fout = Idle

(***************************************************************************)
(* The client: the owner of the pipe.                                      *)
(***************************************************************************)
\* bytes written and not yet read
Avail == Len(inp) - pos

Running == pc \notin {"done", "exit1"}
ClientMay == Running /\ ~closed /\ tail = << >>

ClientSend(m) ==
    /\ ClientMay
    /\ Len(sent) < MaxMsgs
    /\ Avail + Len(Wire(m)) <= PipeCap
    /\ inp' = inp \o Wire(m)
    /\ sent' = Append(sent, m)
    /\ UNCHANGED << worker, closed, tail, pos, pc, nmsg, msgStart, header_length,
                    header, detector, out, outMsg, calls, funVars >>

\* the client dies in the middle of a message: only k bytes of it arrive
ClientSendCut(m, k) ==
    /\ ClientMay
    /\ Len(sent) < MaxMsgs
    /\ k \in 1..(Len(Wire(m)) - 1)
    /\ Avail + k <= PipeCap
    /\ inp' = inp \o Take(Wire(m), k)
    /\ tail' = << m, k >>
    /\ UNCHANGED << worker, closed, sent, pos, pc, nmsg, msgStart, header_length,
                    header, detector, out, outMsg, calls, funVars >>

ClientClose ==
    /\ Running
    /\ ~closed
    /\ closed' = TRUE
    /\ UNCHANGED << worker, inp, sent, tail, pos, pc, nmsg, msgStart, header_length,
                    header, detector, out, outMsg, calls, funVars >>

(***************************************************************************)
(* The worker: main().  sys.stdin.buffer.read(n) blocks until n bytes are  *)
(* there or the stream is closed, and then returns what there is.          *)
(***************************************************************************)
\* a read that returns as soon as some bytes are there
CanReadSome(n) == Avail > 0 \/ n = 0 \/ closed
\* read(n) returns once n bytes are there or the stream is closed
CanRead(n) == Avail >= n \/ closed
Read(n) == SubSeq(inp, pos + 1, pos + Min(n, Avail))

Emit(line) ==
    /\ out' = Append(out, line)
    /\ outMsg' = Append(outMsg, nmsg)

\* a handler that reports the exception and stays in the loop
FatalAndGoOn(e) ==
    /\ Emit(FatalError(e))
    /\ pc' = "read_len"

\* except Exception as e: print Fatal error, sys.exit(1)
Fatal(e) ==
    /\ Emit(FatalError(e))
    /\ pc' = "exit1"

\* header_length_bytes = sys.stdin.buffer.read(4)
ReadLength ==
    /\ pc = "read_len"
    /\ CanRead(LenBytes)
    /\ LET header_length_bytes == Read(LenBytes) IN
         /\ pos' = pos + Len(header_length_bytes)
         /\ IF Len(header_length_bytes) < LenBytes
              THEN /\ pc' = "done"
                   /\ UNCHANGED << nmsg, msgStart, header_length >>
              ELSE /\ pc' = "read_hdr"
                   /\ nmsg' = nmsg + 1
                   /\ msgStart' = pos
                   /\ header_length' = FromBytesLittle(header_length_bytes)
    /\ UNCHANGED << worker, inp, closed, sent, tail, header, detector, out, outMsg, calls,
                    funVars >>

\* a check that only notices a read that returned nothing
HeaderShortEmptyOnly(header_bytes, n) == header_bytes = << >>

\* `if not header_bytes or len(header_bytes) < header_length: break`
HeaderShort(header_bytes, n) == header_bytes = << >> \/ Len(header_bytes) < n

\* a reconfiguration that rewrites the thresholds of the live session
ReconfigureInPlace(cfg) ==
    IF cfg.k = "nondict"
      THEN /\ Fatal("AttributeError")
           /\ UNCHANGED detector
      ELSE /\ detector' = NewDetector(worker, cfg.d, detector.id)
           /\ Emit(ConfigUpdated)
           /\ pc' = "read_len"

\* a reconfiguration that keeps the live session's value for a missing key
ReconfigureMerging(cfg) ==
    IF cfg.k = "nondict"
      THEN /\ Fatal("AttributeError")
           /\ UNCHANGED detector
      ELSE /\ detector' =
                NewDetector(worker,
                            [key \in {"max_num_hands", "min_detection_confidence",
                                      "min_tracking_confidence", "model_complexity"} |->
                               IF key \in DOMAIN cfg.d THEN cfg.d[key] ELSE detector[key]],
                            detector.id + 1)
           /\ Emit(ConfigUpdated)
           /\ pc' = "read_len"

\* detector = HandDetector(new_config) / PoseDetector(new_config)
Reconfigure(cfg) ==
    IF cfg.k = "nondict"
      THEN /\ Fatal("AttributeError")
           /\ UNCHANGED detector
      ELSE /\ detector' = NewDetector(worker, cfg.d, detector.id + 1)
           /\ Emit(ConfigUpdated)
           /\ pc' = "read_len"

\* the if / elif chain on header.get("type")
Dispatch(h) ==
    CASE h.type = "process_frame" ->
           /\ pc' = IF h.format = "binary" THEN "read_payload" ELSE "read_len"
           /\ header' = h
           /\ UNCHANGED << detector, out, outMsg >>
      [] h.type = "ping" ->
           /\ Emit(Pong)
           /\ pc' = "read_len"
           /\ UNCHANGED << header, detector >>
      [] h.type = "config" ->
           /\ Reconfigure(h.config)
           /\ UNCHANGED header
      [] OTHER ->
           /\ Emit(UnknownType(h.type))
           /\ pc' = "read_len"
           /\ UNCHANGED << header, detector >>

\* header_bytes = sys.stdin.buffer.read(header_length), json.loads, dispatch
ReadHeader ==
    /\ pc = "read_hdr"
    /\ CanRead(header_length)
    /\ LET header_bytes == Read(header_length)
           parsed == JsonLoads(header_bytes)
       IN
         /\ pos' = pos + Len(header_bytes)
         /\ IF HeaderShort(header_bytes, header_length)
              THEN /\ pc' = "done"
                   /\ UNCHANGED << header, detector, out, outMsg >>
            ELSE IF parsed.k = "JSONDecodeError"
              THEN /\ Emit(InvalidHeader)
                   /\ pc' = "read_len"
                   /\ UNCHANGED << header, detector >>
            ELSE IF parsed.k = "UnicodeDecodeError"
              THEN /\ Fatal("UnicodeDecodeError")
                   /\ UNCHANGED << header, detector >>
            ELSE IF parsed.k = "nonobject"
              THEN /\ Fatal("AttributeError")
                   /\ UNCHANGED << header, detector >>
            ELSE Dispatch(parsed.v)
    /\ UNCHANGED << worker, inp, closed, sent, tail, nmsg, msgStart, header_length,
                    calls, funVars >>

\* detector.process_frame(image, format='numpy', ...), and its effect on detector
ProcessFrame(w, det, image, h, results) ==
    IF w = "hand"
      THEN HandProcessFrame(image, h.crop_info, h.roi_info, results)
      ELSE PoseProcessFrame(image, h.crop_info, results, det.stop_debug_info)

\* a frame handler that builds itself a fresh default session
DetectorAfterRebuilt(w, det, h, results) == NewDetector(w, EmptyDict, det.id + 1)

DetectorAfter(w, det, h, results) ==
    IF w = "hand" THEN det
    ELSE [det EXCEPT !.stop_debug_info = SdiAfter(h.crop_info, results, @)]

\* the entry of the landmark model's call history
Call(det, n, image, results) == [det |-> det.id, msg |-> n, image |-> image, results |-> results]

\* a check that only notices a payload of which nothing arrived
PayloadShortEmptyOnly(image_bytes, n) == Len(image_bytes) = 0 /\ n > 0

\* `if len(image_bytes) < data_length`
PayloadShort(image_bytes, n) == Len(image_bytes) < n

\* a payload read through a buffer of 2 bytes
DataLengthCapped(h) == IF h.data_length.k = "absent" THEN 0 ELSE Min(h.data_length.v, 2)

\* header.get("data_length", 0)
DataLength(h) == IF h.data_length.k = "absent" THEN 0 ELSE h.data_length.v

\* image_bytes = sys.stdin.buffer.read(data_length), decode, process, print
ReadPayload ==
    /\ pc = "read_payload"
    /\ LET dl == header.data_length
           data_length == DataLength(header)
       IN
         IF dl.k = "str"
           THEN /\ Fatal("TypeError")
                /\ UNCHANGED << pos, detector, calls >>
           ELSE
             /\ CanRead(data_length)
             /\ LET image_bytes == Read(data_length)
                    image == Imdecode(image_bytes)
                IN
                  /\ pos' = pos + Len(image_bytes)
                  /\ IF PayloadShort(image_bytes, data_length)
                       THEN /\ Emit(Incomplete)
                            /\ UNCHANGED << detector, calls >>
                     ELSE IF image_bytes = << >>
                       THEN /\ Emit(EmptyImage)
                            /\ UNCHANGED << detector, calls >>
                     ELSE IF ~image.ok
                       THEN /\ Emit(DecodeFailed)
                            /\ UNCHANGED << detector, calls >>
                     ELSE \E results \in ModelOutputs(worker, detector) :
                            /\ Emit(ProcessFrame(worker, detector, image, header, results))
                            /\ detector' = DetectorAfter(worker, detector, header, results)
                            /\ calls' = IF ReachesModel(header.crop_info)
                                          THEN Append(calls,
                                                 Call(detector, nmsg,
                                                      Analyzed(image, header.crop_info),
                                                      results))
                                          ELSE calls
                  /\ pc' = "read_len"
    /\ UNCHANGED << worker, inp, closed, sent, tail, nmsg, msgStart, header_length,
                    header, funVars >>

Next ==
    \/ \E m \in Menu : ClientSend(m)
    \/ \E m \in Menu : \E k \in 1..(Len(Wire(m)) - 1) : ClientSendCut(m, k)
    \/ ClientClose
    \/ ReadLength
    \/ ReadHeader
    \/ ReadPayload

Spec == Init /\ [][Next]_vars

\* the worker is a running process: a read that can return does return
FairSpec ==
    Spec /\ WF_vars(ReadLength) /\ WF_vars(ReadHeader) /\ WF_vars(ReadPayload)

(***************************************************************************)
(* The crop of process_frame as a function of the image size and the crop  *)
(* descriptor: the inputs are drawn, ApplyCrop computes the rectangle.     *)
(***************************************************************************)
MainIdle ==
    /\ worker \in Workers
    /\ inp = << >>
    /\ closed = FALSE
    /\ sent = << >>
    /\ tail = << >>
    /\ pos = 0
    /\ pc = "idle"
    /\ nmsg = 0
    /\ msgStart = 0
    /\ header_length = 0
    /\ header = Plain(None)
    /\ detector = NewDetector(worker, EmptyDict, 0)
    /\ out = << >>
    /\ outMsg = << >>
    /\ calls = << >>

Nums == (0 - MaxNum)..MaxNum

CropInit ==
    /\ MainIdle
    /\ \E width \in 1..MaxDim, height \in 1..MaxDim, ox \in Nums, oy \in Nums,
          sx \in Nums, sy \in Nums :
          fin = [k |-> "crop", width |-> width, height |-> height,
                 crop |-> Crop("dict", ox, oy, sx, sy)]
    /\ fout = Idle

ApplyCrop ==
    /\ fin.k = "crop"
    /\ fout = Idle
    /\ fout' = [k |-> "rect", rect |-> CropRect(fin.crop, fin.width, fin.height)]
    /\ UNCHANGED << mainVars, fin >>

CropNext == ApplyCrop

CropSpec == CropInit /\ [][CropNext]_vars

(***************************************************************************)
(* process_frame as a function of the frame, the descriptors of the        *)
(* request and the landmark model's answer.                                *)
(***************************************************************************)
FrameCrops ==
    { NoCrop, Crop("empty", 0, 0, 0, 0), Crop("badkeys", 0, 0, 0, 0) }
      \cup { Crop("dict", ox, oy, sx, sy) :
               ox \in 0..MaxOffset, oy \in 0..MaxOffset, sx \in 1..Den, sy \in 1..Den }

FrameResults(w) ==
    IF w = "hand"
      THEN { << >>, << HandShort >>, << HandV, HandShort >> }
             \cup { << HandAt(bx, by, shape, "Left") >> :
                      bx \in 0..Den, by \in 0..Den, shape \in {"v", "fist"} }
      ELSE { NoPose, PoseShort, PoseLeftGone, PoseCut(25), PoseCut(27) }
             \cup { PoseAt(bx, by, << >>) : bx \in 0..Den, by \in 0..Den }

FrameInit ==
    /\ MainIdle
    /\ \E c \in FrameCrops, roi \in {NoCrop, SomeRoi}, results \in FrameResults(worker) :
          /\ worker = "pose" => roi = NoCrop
          /\ fin = [k |-> "frame", image |-> Imdecode(TheImage),
                    header |-> FrameHdr("binary", DL("int", 3), c, roi),
                    results |-> results]
    /\ fout = Idle

ApplyFrame ==
    /\ fin.k = "frame"
    /\ fout = Idle
    /\ fout' = [k |-> "result",
                result |-> ProcessFrame(worker, detector, fin.image, fin.header, fin.results)]
    /\ UNCHANGED << mainVars, fin >>

FrameNext == ApplyFrame

FrameSpec == FrameInit /\ [][FrameNext]_vars



(***************************************************************************)
(* detect_v_gesture as a function of the landmark list: the heights of the *)
(* thumb tip and of the four finger tips and MCP joints are drawn, and so  *)
(* is the length of the list (a list cut short lacks the higher indices).  *)
(***************************************************************************)
\* the indices detect_v_gesture reads
GestureIds == << 4, 5, 8, 9, 12, 13, 16, 17, 20 >>
GestureLens == { 0, 9, 20, NumHandLandmarks }

\* the list of length n whose landmark GestureIds[j] has height ys[j]
GestureList(ys, n) ==
    [i \in 1..n |->
       IF \E j \in 1..Len(GestureIds) : GestureIds[j] = i - 1
         THEN Pt(1, ys[CHOOSE j \in 1..Len(GestureIds) : GestureIds[j] = i - 1])
         ELSE Pt(1, 0)]

GestureInit ==
    /\ MainIdle
    /\ worker = "hand"
    /\ \E ys \in [1..Len(GestureIds) -> 0..MaxY], n \in GestureLens :
          fin = [k |-> "gesture", landmarks |-> GestureList(ys, n)]
    /\ fout = Idle

ApplyGesture ==
    /\ fin.k = "gesture"
    /\ fout = Idle
    /\ fout' = [k |-> "v", is_v |-> detect_v_gesture(fin.landmarks)]
    /\ UNCHANGED << mainVars, fin >>

GestureNext == ApplyGesture

GestureSpec == GestureInit /\ [][GestureNext]_vars

(***************************************************************************)
(* The pose classifiers as functions of the landmark list.  A list is 33   *)
(* landmarks whose visibilities are drawn for the ids a classifier reads   *)
(* (the others are at 0.5), or a list cut short.                           *)
(***************************************************************************)
\* 33 landmarks: landmark ids[j] has visibility vs[j], the others 50
PoseVis(ids, vs) ==
    PoseOf([i \in 1..NumPoseLandmarks |->
              PosePt(1, 1,
                     IF \E j \in 1..Len(ids) : ids[j] = i - 1
                       THEN vs[CHOOSE j \in 1..Len(ids) : ids[j] = i - 1]
                       ELSE 50)])

\* visibilities around the 0.7 threshold
KeyVis == { 0, GoodVisibility, GoodVisibility + 1 }

FullBodyInit ==
    /\ MainIdle
    /\ worker = "pose"
    /\ \/ \E vs \in [1..Len(key_landmarks) -> KeyVis] :
             fin = [k |-> "full_body", landmarks |-> PoseVis(key_landmarks, vs)]
       \/ fin = [k |-> "full_body", landmarks |-> PoseShort]
       \/ fin = [k |-> "full_body", landmarks |-> NoPose]
    /\ fout = Idle

ApplyFullBody ==
    /\ fin.k = "full_body"
    /\ fout = Idle
    /\ fout' = [k |-> "full", r |-> check_full_body_visible(fin.landmarks)]
    /\ UNCHANGED << mainVars, fin >>

FullBodyNext == ApplyFullBody

FullBodySpec == FullBodyInit /\ [][FullBodyNext]_vars

\* visibilities around the 0.3 threshold
SideVis == { LowVisibility - 1, LowVisibility }

StopInit ==
    /\ MainIdle
    /\ worker = "pose"
    /\ \/ \E vs \in [1..(Len(left_side_landmarks) + Len(right_side_landmarks)) -> SideVis] :
             fin = [k |-> "stop_condition",
                    landmarks |-> PoseVis(left_side_landmarks \o right_side_landmarks, vs)]
       \/ fin = [k |-> "stop_condition", landmarks |-> PoseShort]
    /\ fout = Idle

ApplyStop ==
    /\ fin.k = "stop_condition"
    /\ fout = Idle
    /\ fout' = [k |-> "stop", r |-> check_stop_condition(fin.landmarks, NoSdi)]
    /\ UNCHANGED << mainVars, fin >>

StopNext == ApplyStop

StopSpec == StopInit /\ [][StopNext]_vars

\* visibilities of the face and of the shoulders and hips: all of the
\* former at 0.4 and all of the latter at 0.6 give a confidence of 0.6
FrontVis == { 10, 40 }
BackVis == { 60, 90 }

BackViewInit ==
    /\ MainIdle
    /\ worker = "pose"
    /\ \/ \E fv \in [1..Len(front_landmarks) -> FrontVis],
             bv \in [1..Len(back_landmarks) -> BackVis] :
             fin = [k |-> "back_view",
                    landmarks |-> PoseVis(front_landmarks \o back_landmarks, fv \o bv)]
       \/ fin = [k |-> "back_view", landmarks |-> PoseFull]
       \/ fin = [k |-> "back_view", landmarks |-> PoseShort]
    /\ fout = Idle

ApplyBackView ==
    /\ fin.k = "back_view"
    /\ fout = Idle
    /\ fout' = [k |-> "back", r |-> detect_back_view(fin.landmarks)]
    /\ UNCHANGED << mainVars, fin >>

BackViewNext == ApplyBackView

BackViewSpec == BackViewInit /\ [][BackViewNext]_vars

(***************************************************************************)
(* Vocabulary of the properties.                                           *)
(***************************************************************************)
RECURSIVE WireLen(_)
WireLen(ms) == IF ms = << >> THEN 0 ELSE Len(Wire(ms[1])) + WireLen(Tail(ms))

\* the offset just after the k-th complete message
End(k) == WireLen(SubSeq(sent, 1, k))

HeaderOf(m) == JsonLoads(m.text)
IsObjectMsg(m) == HeaderOf(m).k = "object"
TypeOf(m) == HeaderOf(m).v.type

\* the lines written while message k was in hand
LinesFor(k) == { i \in 1..Len(out) : outMsg[i] = k }

\* line is a response to a message with header h
Answers(line, h) ==
    CASE h.type = "ping" -> line = [success |-> TRUE, message |-> "pong"]
      [] h.type = "config" -> line = [success |-> TRUE, message |-> "config updated"]
      [] h.type = "process_frame" ->
           \/ "success" \in DOMAIN line
           \/ line \in { [error |-> << "Empty image data" >>],
                         [error |-> << "Failed to decode image" >>] }
      [] OTHER -> line = [error |-> << "Unknown command type", h.type >>]

\* the client wrote only part of a last message
TailCut == tail # << >>
\* ... and stopped inside its length prefix or its header
TailInHead == TailCut /\ tail[2] < LenBytes + Len(tail[1].text)
\* ... and stopped inside its payload
TailInPayload == TailCut /\ tail[2] >= LenBytes + Len(tail[1].text)
\* the worker has read the length prefix of that partial message
ReachedTail == nmsg = Len(sent) + 1 /\ msgStart = End(Len(sent))

\* the header the worker is about to parse, when all its bytes are there
HeaderReady == pc = "read_hdr" /\ Avail >= header_length
Parsed == JsonLoads(Read(header_length))
\* this step is the worker's ReadHeader
HeaderStep == HeaderReady /\ pc' # pc
AfterHeader == msgStart + LenBytes + header_length

\* messages the worker is through with
Handled == IF pc \in {"read_hdr", "read_payload"} THEN nmsg - 1 ELSE nmsg

\* a config message whose config is absent, null or an object
CfgOk(m) == IsObjectMsg(m) /\ TypeOf(m) = "config" /\ HeaderOf(m).v.config.k # "nondict"
NumCfg(k) == Cardinality({ j \in 1..Min(k, Len(sent)) : CfgOk(sent[j]) })

(***************************************************************************)
(* C1.  For a stream of complete messages whose headers are JSON objects,  *)
(* when the worker is about to read the length prefix of message k + 1 it  *)
(* has written exactly k lines, and line j answers message j.              *)
(* Fails: a process_frame header whose format is not "binary" gets no line.*)
(***************************************************************************)
C1_OneResponsePerMessage ==
    \A k \in 1..Len(sent) :
        ( /\ \A j \in 1..k : IsObjectMsg(sent[j])
          /\ pc = "read_len"
          /\ pos = End(k) )
        => /\ Len(out) = k
           /\ \A j \in 1..k : outMsg[j] = j /\ Answers(out[j], HeaderOf(sent[j]).v)

(***************************************************************************)
(* C2, as claimed.  When the stream closes inside the payload of a binary  *)
(* process_frame message, no line is written for that message.             *)
(***************************************************************************)
C2_NoLineForPartialPayload ==
    (TailInPayload /\ ReachedTail) => LinesFor(nmsg) = {}

(***************************************************************************)
(* C2, amended.  When the stream closes inside the payload of a binary     *)
(* process_frame message, exactly one line is written for that message,    *)
(* the error "Incomplete image data"; the stream is then exhausted, so     *)
(* the next read of a length prefix ends the loop, with no fatal error.    *)
(***************************************************************************)
C2_IncompleteReported ==
    (TailInPayload /\ ReachedTail /\ pc \notin {"read_hdr", "read_payload"})
    => /\ pc \in {"read_len", "done"}
       /\ closed /\ pos = Len(inp)
       /\ Cardinality(LinesFor(nmsg)) = 1
       /\ outMsg[Len(out)] = nmsg
       /\ out[Len(out)] = [error |-> << "Incomplete image data" >>]

C2_Witness ==
    /\ TailInPayload /\ ReachedTail
    /\ pc = "done"
    /\ Len(sent) >= 1
    /\ Len(out) = 2
    /\ out[2] = [error |-> << "Incomplete image data" >>]

(***************************************************************************)
(* C3.  When the stream closes inside a length prefix or inside a header,  *)
(* no line is written for that partial message, the worker does not exit   *)
(* with a fatal error because of it, and the loop ends; every complete     *)
(* message before it keeps its one line at most.                           *)
(***************************************************************************)
C3_TruncatedHeadSilent ==
    TailInHead
    => /\ \A i \in 1..Len(out) : outMsg[i] <= Len(sent)
       /\ \A k \in 1..Len(sent) : Cardinality(LinesFor(k)) <= 1
       /\ pos > End(Len(sent)) => pc \in {"read_hdr", "done"}

C3_Witness ==
    /\ TailInHead
    /\ tail[2] > LenBytes
    /\ pc = "done"
    /\ pos = Len(inp)
    /\ nmsg = Len(sent) + 1
    /\ Len(out) >= 1

(***************************************************************************)
(* C4.  When the L header bytes of a message are all there and are not     *)
(* valid JSON, the worker writes exactly one error line, stays in the      *)
(* loop, keeps its detector and goes on to read at the byte after the      *)
(* header.  Fails for L = 0: the empty header is not JSON, and the loop    *)
(* ends without a line.                                                    *)
(***************************************************************************)
C4_InvalidHeaderAnswered ==
    [][ (HeaderStep /\ Parsed.k = "JSONDecodeError")
        => /\ out' = Append(out, [error |-> << "Invalid header JSON" >>])
           /\ pc' = "read_len"
           /\ detector' = detector
           /\ pos' = AfterHeader ]_vars

(***************************************************************************)
(* C5.  A header that is a JSON object whose type is none of               *)
(* process_frame, ping, config (a header without a type has type None)     *)
(* gets exactly one error line naming that type; no payload byte is        *)
(* consumed, the detector is kept and the loop goes on to the next prefix. *)
(***************************************************************************)
C5_UnknownTypeAnswered ==
    [][ (HeaderStep /\ Parsed.k = "object"
           /\ Parsed.v.type \notin {"process_frame", "ping", "config"})
        => /\ out' = Append(out, [error |-> << "Unknown command type", Parsed.v.type >>])
           /\ pc' = "read_len"
           /\ pos' = AfterHeader
           /\ detector' = detector ]_vars

C5_Witness ==
    /\ Len(sent) = 2
    /\ IsObjectMsg(sent[1]) /\ TypeOf(sent[1]) = None
    /\ IsObjectMsg(sent[2]) /\ TypeOf(sent[2]) = "foo"
    /\ pc = "read_len" /\ pos = End(2)
    /\ out = << [error |-> << "Unknown command type", None >>],
                [error |-> << "Unknown command type", "foo" >>] >>

(***************************************************************************)
(* C6.  In every state in which the worker handles a ping, it writes       *)
(* exactly {"success": true, "message": "pong"} and changes nothing else:  *)
(* the detector, the header in hand and the model's call history are       *)
(* kept, and it reads on at the byte after the header.                     *)
(***************************************************************************)
C6_PingPong ==
    [][ (HeaderStep /\ Parsed.k = "object" /\ Parsed.v.type = "ping")
        => /\ out' = Append(out, [success |-> TRUE, message |-> "pong"])
           /\ pc' = "read_len"
           /\ pos' = AfterHeader
           /\ detector' = detector
           /\ header' = header
           /\ calls' = calls ]_vars

C6_Witness ==
    /\ Len(sent) = 2
    /\ IsObjectMsg(sent[1]) /\ TypeOf(sent[1]) = "config"
    /\ IsObjectMsg(sent[2]) /\ TypeOf(sent[2]) = "ping"
    /\ pc = "read_len" /\ pos = End(2)
    /\ out[2] = [success |-> TRUE, message |-> "pong"]
    /\ detector.id = 1

(***************************************************************************)
(* C7.  Every config message whose config is absent, null or an object     *)
(* puts a newly constructed session in place of the active one and is      *)
(* answered by "config updated": the active session is the one built by    *)
(* the last such message, and every call of the landmark model is made on  *)
(* the session built by the last config message before its frame.          *)
(***************************************************************************)
C7_ConfigSwapsSession ==
    /\ detector.id = NumCfg(Handled)
    /\ \A k \in 1..Min(Handled, Len(sent)) :
          CfgOk(sent[k])
          => \E i \in 1..Len(out) :
                /\ LinesFor(k) = {i}
                /\ out[i] = [success |-> TRUE, message |-> "config updated"]
    /\ \A i \in 1..Len(calls) : calls[i].det = NumCfg(calls[i].msg - 1)

C7_Witness ==
    /\ Len(sent) = 2
    /\ CfgOk(sent[1])
    /\ Len(calls) = 1
    /\ calls[1].det = 1 /\ calls[1].msg = 2
    /\ out[1] = [success |-> TRUE, message |-> "config updated"]
    /\ Len(out) = 2

(***************************************************************************)
(* C8.  Every line written holds a boolean success field, and success is   *)
(* false when the line holds an error field.                               *)
(* Fails: the error lines of the main loop hold no success field.          *)
(***************************************************************************)
C8_EveryLineHasSuccess ==
    \A i \in 1..Len(out) :
        /\ "success" \in DOMAIN out[i]
        /\ out[i].success \in BOOLEAN
        /\ "error" \in DOMAIN out[i] => out[i].success = FALSE

(***************************************************************************)
(* C9.  For every image of width, height >= 1 and every crop descriptor,   *)
(* the clamped rectangle has 0 <= x1 < x2 <= width and                     *)
(* 0 <= y1 < y2 <= height.                                                 *)
(***************************************************************************)
C9_RectInsideImage ==
    fout.k = "rect"
    => /\ 0 <= fout.rect.x1 /\ fout.rect.x1 < fout.rect.x2 /\ fout.rect.x2 <= fin.width
       /\ 0 <= fout.rect.y1 /\ fout.rect.y1 < fout.rect.y2 /\ fout.rect.y2 <= fin.height

\* a negative offset with a zero scale on x, a window past the bottom edge on y
C9_Witness ==
    /\ fout.k = "rect"
    /\ fin.crop.offsetX < 0 /\ fin.crop.scaleX = 0
    /\ fin.crop.offsetY + fin.crop.scaleY > Den
    /\ fin.width > 1 /\ fin.height > 1
    /\ fout.rect.x1 = 0 /\ fout.rect.x2 = 1
    /\ fout.rect.y2 = fin.height

(***************************************************************************)
(* The landmarks the model reported and the landmarks of the result, one   *)
(* list per detection.                                                     *)
(***************************************************************************)
Reported ==
    IF worker = "hand"
      THEN [i \in 1..Len(fin.results) |-> fin.results[i].landmark]
      ELSE IF fin.results.present THEN << fin.results.landmark >> ELSE << >>

Returned ==
    IF worker = "hand"
      THEN [i \in 1..Len(fout.result.hands) |-> fout.result.hands[i].landmarks]
      ELSE IF fout.result.pose.detected THEN << fout.result.pose.landmarks >> ELSE << >>

FrameDone == fout.k = "result" /\ fout.result.success

(***************************************************************************)
(* C10, as claimed.  A request with a crop descriptor returns every        *)
(* landmark the model reported at (x, y) in crop space at                  *)
(* (offsetX + x * scaleX, offsetY + y * scaleY).  Both sides are compared  *)
(* in units of 1/Den^2.                                                    *)
(***************************************************************************)
C10_Remapped ==
    (FrameDone /\ fin.header.crop_info.k = "dict")
    => \A i \in 1..Len(Reported) : \A j \in 1..Len(Reported[i]) :
          /\ Returned[i][j].x * Den = RemapPt(Reported[i][j], fin.header.crop_info).x
          /\ Returned[i][j].y * Den = RemapPt(Reported[i][j], fin.header.crop_info).y

(***************************************************************************)
(* C10, amended.  There is no remap mode: with or without a crop           *)
(* descriptor, every landmark the model reported at (x, y) in the space    *)
(* of the analyzed image is returned at (x, y).                            *)
(***************************************************************************)
C10_CropSpaceKept ==
    FrameDone
    => /\ Len(Returned) = Len(Reported)
       /\ \A i \in 1..Len(Reported) :
             /\ Len(Returned[i]) = Len(Reported[i])
             /\ \A j \in 1..Len(Reported[i]) :
                   /\ Returned[i][j].x = Reported[i][j].x
                   /\ Returned[i][j].y = Reported[i][j].y

\* a hand at crop-space (1, 1) under a crop with an offset: returned at (1, 1)
C10_Witness ==
    /\ FrameDone
    /\ worker = "hand"
    /\ fin.header.crop_info.k = "dict"
    /\ fin.header.crop_info.offsetX > 0 /\ fin.header.crop_info.scaleX < Den
    /\ Len(Reported) = 1
    /\ Reported[1][1].x = Den /\ Reported[1][1].y = Den
    /\ Returned[1][1].x = Den /\ Returned[1][1].y = Den

(***************************************************************************)
(* C11.  detect_v_gesture is true exactly when the index and the middle    *)
(* tip are above their MCP joints (smaller y) and the ring and the pinky   *)
(* tip are not (y at least that of the joint); so flipping one of the four *)
(* conditions gives false.  The height of the thumb tip does not change    *)
(* the result, and a list that lacks one of the indices gives false.       *)
(***************************************************************************)
TipAbove(lm, tip, mcp) == lm[tip + 1].y < lm[mcp + 1].y
WithThumb(lm, y) == [lm EXCEPT ![5] = Pt(1, y)]

C11_ShortListWitness ==
    /\ fout.k = "v"
    /\ Len(fin.landmarks) = 20
    /\ ~fout.is_v

(***************************************************************************)
(* C12.  full_body_visible is true exactly when at least 8 of the 9 key    *)
(* landmarks (nose, shoulders, hips, knees, ankles) have a visibility      *)
(* strictly above 0.7: 8 give true, 7 give false, and 0.7 does not count.  *)
(***************************************************************************)
KeyIds == { 0, 11, 12, 23, 24, 25, 26, 27, 28 }
Complete(landmarks) == Len(landmarks.landmark) = 33
VisAt(landmarks, id) == landmarks.landmark[id + 1].visibility
Qualifying(landmarks) == { id \in KeyIds : VisAt(landmarks, id) > 70 }

C12_SevenWitness ==
    /\ fout.k = "full"
    /\ Complete(fin.landmarks)
    /\ Cardinality(Qualifying(fin.landmarks)) = 7
    /\ ~fout.r.full

(***************************************************************************)
(* C13, as claimed.  The confidence of check_full_body_visible is the sum  *)
(* of the visibilities of all 9 key landmarks divided by 9.                *)
(* Fails: only the landmarks above 0.7 are added up.                       *)
(***************************************************************************)
RECURSIVE SumVis(_, _)
SumVis(landmarks, ids) ==
    IF ids = {} THEN 0
    ELSE LET id == CHOOSE i \in ids : TRUE
         IN  VisAt(landmarks, id) + SumVis(landmarks, ids \ {id})

C13_MeanOverAllNine ==
    (fout.k = "full" /\ Complete(fin.landmarks)) =>
      fout.r.conf.num * 9 = SumVis(fin.landmarks, KeyIds) * fout.r.conf.den

(***************************************************************************)
(* C14.  check_stop_condition is true exactly when all 6 left-side         *)
(* landmarks (eye, ear, shoulder, wrist, hip, knee) have a visibility      *)
(* below 0.3 or all 6 right-side landmarks have.  One landmark of a side   *)
(* at 0.3 or more makes that side not gone, and whether a side is gone is  *)
(* a function of that side's landmarks alone.                              *)
(***************************************************************************)
LeftIds == { 2, 7, 11, 15, 23, 25 }
RightIds == { 5, 8, 12, 16, 24, 26 }
SideGone(landmarks, ids) == \A id \in ids : VisAt(landmarks, id) < 30

C14_StopIffASideGone ==
    (fout.k = "stop" /\ Complete(fin.landmarks)) =>
      /\ fout.r.stop <=> (SideGone(fin.landmarks, LeftIds) \/ SideGone(fin.landmarks, RightIds))
      /\ fout.r.sdi.left_gone <=> SideGone(fin.landmarks, LeftIds)
      /\ fout.r.sdi.right_gone <=> SideGone(fin.landmarks, RightIds)

\* the left side gone, the right side in full view: stop
C14_Witness ==
    /\ fout.k = "stop"
    /\ Complete(fin.landmarks)
    /\ SideGone(fin.landmarks, LeftIds)
    /\ \A id \in RightIds : VisAt(fin.landmarks, id) >= 30
    /\ fout.r.stop

\* one left landmark at 0.3, the right side in view: no stop
C14_OneLeftWitness ==
    /\ fout.k = "stop"
    /\ Complete(fin.landmarks)
    /\ Cardinality({ id \in LeftIds : VisAt(fin.landmarks, id) < 30 }) = 5
    /\ ~SideGone(fin.landmarks, RightIds)
    /\ ~fout.r.stop

(***************************************************************************)
(* C15, as claimed.  A frame that is processed successfully and in which   *)
(* the landmark model finds no pose is answered with a pose result that    *)
(* has should_stop_recording, set to true.                                 *)
(* Fails: the result of a frame without a pose has no such field.          *)
(***************************************************************************)
C15_NoPoseSignalsStop ==
    (fout.k = "result" /\ worker = "pose" /\ fin.results = NoPose /\ fout.result.success) =>
      /\ "should_stop_recording" \in DOMAIN fout.result.pose
      /\ fout.result.pose.should_stop_recording

(***************************************************************************)
(* C16.  detect_back_view returns                                          *)
(*   confidence = 0.7 * (1 - front_avg) + 0.3 * back_avg,                  *)
(* front_avg the mean visibility of the 11 face landmarks and back_avg     *)
(* that of the 4 shoulder and hip landmarks, and is_back_view is true      *)
(* exactly when the confidence is above 0.6.  With F and B the two sums in *)
(* hundredths, confidence * 44000 = 28 * (1100 - F) + 33 * B, and 0.6 is   *)
(* 26400.  A list that lacks a landmark gives false, 0.0 and an error      *)
(* reason.                                                                 *)
(***************************************************************************)
FaceIds == 0..10
TorsoIds == { 11, 12, 23, 24 }
Score(landmarks) ==
    28 * (1100 - SumVis(landmarks, FaceIds)) + 33 * SumVis(landmarks, TorsoIds)

C16_BackViewScore ==
    fout.k = "back" =>
      IF Complete(fin.landmarks)
        THEN /\ fout.r.confidence.num * 44000 = Score(fin.landmarks) * fout.r.confidence.den
             /\ fout.r.is_back_view <=> Score(fin.landmarks) > 26400
        ELSE /\ ~fout.r.is_back_view
             /\ fout.r.confidence.num = 0
             /\ fout.r.reason[1] = "error"

\* front average 0.1, back average 0.9: confidence 0.90, a back view
C16_Witness ==
    /\ fout.k = "back"
    /\ Complete(fin.landmarks)
    /\ SumVis(fin.landmarks, FaceIds) = 110
    /\ SumVis(fin.landmarks, TorsoIds) = 360
    /\ fout.r.confidence.num * 10 = 9 * fout.r.confidence.den
    /\ fout.r.is_back_view

\* confidence exactly 0.6: not a back view
C16_AtThresholdWitness ==
    /\ fout.k = "back"
    /\ Complete(fin.landmarks)
    /\ Score(fin.landmarks) = 26400
    /\ ~fout.r.is_back_view

\* a landmark list cut short: the error default
C16_ErrorWitness ==
    /\ fout.k = "back"
    /\ ~Complete(fin.landmarks)
    /\ fout.r.reason[1] = "error"

(***************************************************************************)
(* C17.  A classifier that fails does not abort the request.  The model    *)
(* found a pose or a hand and its landmark list lacks an index that a      *)
(* classifier reads (check_full_body_visible reads up to 28,               *)
(* check_stop_condition up to 26, detect_back_view up to 24,               *)
(* detect_v_gesture up to 20): the response is success = true, the failed  *)
(* classifier gives its default (full body false with confidence 0, stop   *)
(* true, back view false with confidence 0, no V gesture), and the others  *)
(* give what they give on that list by themselves.                         *)
(***************************************************************************)
Lacks(landmarks, id) == Len(landmarks) <= id
ModelReached == fout.k = "result" /\ ReachesModel(fin.header.crop_info)

C17_PoseClassifierFailureContained ==
    (ModelReached /\ worker = "pose" /\ fin.results.present) =>
      LET lms == fin.results.landmark
          pose == fout.result.pose
      IN  /\ fout.result.success
          /\ pose.detected
          /\ IF Lacks(lms, 28)
                THEN ~pose.full_body_visible /\ pose.confidence.num = 0
                ELSE /\ pose.full_body_visible = check_full_body_visible(fin.results).full
                     /\ pose.confidence = check_full_body_visible(fin.results).conf
          /\ IF Lacks(lms, 26)
                THEN pose.should_stop_recording
                ELSE pose.should_stop_recording
                       = check_stop_condition(fin.results, NoSdi).stop
          /\ IF Lacks(lms, 24)
                THEN ~pose.back_view.is_back_view /\ pose.back_view.confidence.num = 0
                ELSE pose.back_view = detect_back_view(fin.results)
          /\ pose.bbox = get_body_bbox(fin.results)

C17_HandClassifierFailureContained ==
    (ModelReached /\ worker = "hand"
       /\ \A i \in 1..Len(fin.results) : Len(fin.results[i].landmark) > 0) =>
      /\ fout.result.success
      /\ Len(fout.result.hands) = Len(fin.results)
      /\ \A i \in 1..Len(fin.results) :
            LET hand == fout.result.hands[i]
                lms == fin.results[i].landmark
            IN  /\ Lacks(lms, 20) => ~hand.is_v_gesture
                /\ ~Lacks(lms, 20) => hand.is_v_gesture = detect_v_gesture(lms)
                /\ \A j \in 1..Len(lms) :
                      /\ hand.bbox.x1 <= lms[j].x /\ lms[j].x <= hand.bbox.x2
                      /\ hand.bbox.y1 <= lms[j].y /\ lms[j].y <= hand.bbox.y2

C17_ClassifierFailureContained ==
    C17_PoseClassifierFailureContained /\ C17_HandClassifierFailureContained

\* 27 landmarks: check_full_body_visible fails, the other two do not
C17_Witness ==
    /\ ModelReached
    /\ worker = "pose"
    /\ fin.results.present
    /\ Len(fin.results.landmark) = 27
    /\ fout.result.success
    /\ ~fout.result.pose.full_body_visible
    /\ ~fout.result.pose.should_stop_recording
    /\ fout.result.pose.back_view.reason[1] = "front_vis"

\* a hand of 5 landmarks next to a V: answered, the V is kept
C17_HandWitness ==
    /\ ModelReached
    /\ worker = "hand"
    /\ Len(fin.results) = 2
    /\ fout.result.success
    /\ fout.result.hands[1].is_v_gesture
    /\ Len(fout.result.hands[2].landmarks) = 5
    /\ ~fout.result.hands[2].is_v_gesture

(***************************************************************************)
(* C18.  An exception that escapes the handling of a message (a header     *)
(* that is JSON but not an object, header bytes that are not UTF-8, a      *)
(* data_length that is not an integer, a config the detector constructor   *)
(* rejects) is reported as one 'Fatal error' line; the worker then exits   *)
(* with status 1: it reads nothing more and writes nothing more, and no    *)
(* run has more than one such line.                                        *)
(***************************************************************************)
IsFatalLine(line) == "error" \in DOMAIN line /\ line.error[1] = "Fatal error"
FatalLines == { i \in 1..Len(out) : IsFatalLine(out[i]) }

EscapesAtHeader ==
    /\ HeaderStep
    /\ header_length > 0
    /\ \/ Parsed.k \in {"nonobject", "UnicodeDecodeError"}
       \/ /\ Parsed.k = "object"
          /\ Parsed.v.type = "config"
          /\ Parsed.v.config.k = "nondict"
EscapesAtPayload ==
    /\ pc = "read_payload"
    /\ pc' # pc
    /\ header.data_length.k = "str"

C18_FatalReportedOnceThenExit ==
    [][ /\ (EscapesAtHeader \/ EscapesAtPayload)
            => /\ Len(out') = Len(out) + 1
               /\ IsFatalLine(out'[Len(out')])
               /\ pc' = "exit1"
        /\ pc = "exit1" => (pc' = "exit1" /\ pos' = pos /\ out' = out)
        /\ Cardinality(FatalLines') = (IF pc' = "exit1" THEN 1 ELSE 0) ]_vars

\* the worker has exited on the first message while a second one waits unread
C18_Witness ==
    /\ pc = "exit1"
    /\ Len(sent) = 2
    /\ pos = End(1)
    /\ Len(out) = 1
    /\ IsFatalLine(out[1])

(***************************************************************************)
(* C19.  A process_frame message with format binary that declares          *)
(* data_length n >= 0 and whose n payload bytes are there: the worker      *)
(* consumes exactly n bytes, whether the image is empty, undecodable or    *)
(* processed, writes exactly one line (an error or a result), and reads    *)
(* the next length prefix at offset 4 + L + n of the message.              *)
(***************************************************************************)
PayloadStep ==
    /\ pc = "read_payload"
    /\ pc' # pc
    /\ header.data_length.k = "int"
    /\ Avail >= header.data_length.v

C19_PayloadFramed ==
    [][ /\ PayloadStep
            => /\ pos' = pos + header.data_length.v
               /\ pos' = msgStart + 4 + header_length + header.data_length.v
               /\ pc' = "read_len"
               /\ Len(out') = Len(out) + 1
               /\ SubSeq(out', 1, Len(out)) = out
               /\ LET line == out'[Len(out')]
                  IN  \/ "success" \in DOMAIN line
                      \/ line \in { [error |-> << "Empty image data" >>],
                                     [error |-> << "Failed to decode image" >>] }
        /\ (pc = "read_len" /\ pc' = "read_hdr") => msgStart' = pos ]_vars

\* an undecodable payload of 1 byte, then a frame that is processed: the
\* second message is read where the first one ends
C19_Witness ==
    /\ Len(sent) = 2
    /\ pc = "read_len"
    /\ pos = End(2)
    /\ Len(out) = 2
    /\ out[1] = [error |-> << "Failed to decode image" >>]
    /\ "success" \in DOMAIN out[2]
    /\ out[2].success

\* an empty payload (data_length 0) answered, the next message read after it
C19_EmptyWitness ==
    /\ Len(sent) = 2
    /\ IsObjectMsg(sent[1])
    /\ HeaderOf(sent[1]).v = FrameHdr("binary", DL("int", 0), NoCrop, NoCrop)
    /\ pos = End(2)
    /\ Len(out) = 2
    /\ out[1] = [error |-> << "Empty image data" >>]

(***************************************************************************)
(* C20, as claimed.  A message whose length prefix is L = 0 and that is    *)
(* followed by a further complete message does not end the loop: it is     *)
(* answered with one invalid-header error line and the worker goes on to   *)
(* read the next length prefix.                                            *)
(* Fails: the read of 0 bytes returns an empty string, which the loop      *)
(* takes for the end of the stream.                                        *)
(***************************************************************************)
C20_EmptyHeaderAnswered ==
    [][ (pc = "read_hdr" /\ header_length = 0 /\ nmsg < Len(sent) /\ pc' # pc)
        => /\ pc' = "read_len"
           /\ Len(out') = Len(out) + 1
           /\ "error" \in DOMAIN out'[Len(out')] ]_vars

(***************************************************************************)
(* C21, as claimed.  In every response with detected = true, stop_debug is *)
(* there, its should_stop is the should_stop_recording of the response,    *)
(* and its counts and gone flags are those of the landmarks of that frame. *)
(* Fails: stop_debug is the detector's stop_debug_info attribute, which    *)
(* check_stop_condition does not assign on its error path; the response    *)
(* then has no breakdown (first frame of a session) or that of an earlier  *)
(* frame.                                                                  *)
(***************************************************************************)
LowCount(lms, ids) == Cardinality({ id \in ids : lms[id + 1].visibility < 30 })

C21_StopDebugOfThisFrame ==
    \A i \in 1..Len(out) :
       ("pose" \in DOMAIN out[i] /\ out[i].pose.detected) =>
         LET pose == out[i].pose
             dbg == pose.stop_debug
         IN  /\ dbg.set
             /\ dbg.should_stop = pose.should_stop_recording
             /\ Len(pose.landmarks) = 33 =>
                   /\ dbg.left_invisible = LowCount(pose.landmarks, LeftIds)
                   /\ dbg.right_invisible = LowCount(pose.landmarks, RightIds)
                   /\ dbg.left_gone = (LowCount(pose.landmarks, LeftIds) = 6)
                   /\ dbg.right_gone = (LowCount(pose.landmarks, RightIds) = 6)

\* the same, for a breakdown left over from an earlier frame
C21_NoStaleBreakdown ==
    \A i \in 1..Len(out) :
       ("pose" \in DOMAIN out[i] /\ out[i].pose.detected /\ out[i].pose.stop_debug.set) =>
         out[i].pose.stop_debug.should_stop = out[i].pose.should_stop_recording

(***************************************************************************)
(* C22.  The active session (which detector object it is) and its          *)
(* settings (thresholds, max_num_hands, model_complexity) change only in   *)
(* the step that handles a config message: frames, processed or failing,   *)
(* pings, unknown types and invalid headers leave them as they are.        *)
(***************************************************************************)
Settings(det) ==
    << det.id, det.max_num_hands, det.min_detection_confidence,
       det.min_tracking_confidence, det.model_complexity >>
ConfigStep == HeaderStep /\ Parsed.k = "object" /\ Parsed.v.type = "config"

C22_SessionChangesOnlyOnConfig ==
    [][ Settings(detector)' # Settings(detector) => ConfigStep ]_vars

\* a session configured by the first message has processed the frame of the
\* second one and is still the same, with the settings of the first
C22_Witness ==
    /\ Len(sent) = 2
    /\ CfgOk(sent[1])
    /\ Len(calls) = 1
    /\ calls[1].msg = 2
    /\ Len(out) = 2
    /\ "success" \in DOMAIN out[2]
    /\ detector.id = 1
    /\ detector.min_detection_confidence = 7

(***************************************************************************)
(* C23.  After a config message every setting of the session is the value  *)
(* of that message's config object where it has the key, and the default   *)
(* otherwise: max_num_hands 2 (hand worker), min_detection_confidence 0.5, *)
(* min_tracking_confidence 0.5, model_complexity 1 (pose worker).  Nothing *)
(* carries over from an earlier config message: a config message without   *)
(* a config object gives all defaults.  Confidences are in tenths.         *)
(***************************************************************************)
Given(d, key, default) == IF key \in DOMAIN d THEN d[key] ELSE default

C23_ConfigGivesValueOrDefault ==
    [][ (ConfigStep /\ Parsed.v.config.k # "nondict") =>
          LET d == Parsed.v.config.d
          IN  /\ worker = "hand" => detector'.max_num_hands = Given(d, "max_num_hands", 2)
              /\ worker = "pose" => detector'.model_complexity = Given(d, "model_complexity", 1)
              /\ detector'.min_detection_confidence = Given(d, "min_detection_confidence", 5)
              /\ detector'.min_tracking_confidence = Given(d, "min_tracking_confidence", 5) ]_vars

\* a config object with settings, then a config message without one: the
\* second session is all defaults
C23_Witness ==
    /\ Len(sent) = 2
    /\ CfgOk(sent[1]) /\ HeaderOf(sent[1]).v.config.k = "dict"
    /\ CfgOk(sent[2]) /\ HeaderOf(sent[2]).v.config.k = "absent"
    /\ detector.id = 2
    /\ detector.min_detection_confidence = 5
    /\ detector.min_tracking_confidence = 5
    /\ detector.max_num_hands \in {0, 2}
    /\ detector.model_complexity \in {0, 1}

(***************************************************************************)
(* C24.  roi_info does not influence the hand worker's result: the same    *)
(* frame, crop descriptor and model output give the same result (the same  *)
(* landmark coordinates, boxes and V flags, or the same error) whatever    *)
(* roi_info the request carries, and with a region of interest too the     *)
(* landmarks are returned where the model reported them.                   *)
(***************************************************************************)
RoiChoices ==
    { NoCrop, SomeRoi, Crop("empty", 0, 0, 0, 0), Crop("badkeys", 0, 0, 0, 0),
      Crop("dict", 1, 1, 1, 1) }

Needed ==
    CASE pc = "read_len" -> 4
      [] pc = "read_hdr" -> header_length
      [] pc = "read_payload" /\ header.data_length.k = "int" -> header.data_length.v
      [] OTHER -> 0
Waiting == Running /\ ~closed /\ Avail < Needed
WorkerStep == ReadLength \/ ReadHeader \/ ReadPayload

C25_WaitsOnlyForLengthPrefix == Waiting => pc = "read_len"

(***************************************************************************)
(* C25, amended.  The worker waits for input at each of its three reads    *)
(* (length prefix, header, payload) and nowhere else: a read waits exactly *)
(* while the stream is open and fewer bytes than it asks for have arrived, *)
(* and the worker takes its next step as soon as that is no longer so.     *)
(***************************************************************************)
C25_WaitsAtEachRead ==
    Running => ((ENABLED WorkerStep) <=> ~Waiting)

\* the length prefix is read, part of the header has arrived, the stream is
\* open: the worker waits
C25_Witness ==
    /\ pc = "read_hdr"
    /\ ~closed
    /\ 0 < Avail /\ Avail < header_length
    /\ ~ENABLED WorkerStep

\* the same inside a payload
C25_PayloadWitness ==
    /\ pc = "read_payload"
    /\ ~closed
    /\ 0 < Avail /\ Avail < Needed
    /\ ~ENABLED WorkerStep

(***************************************************************************)
(* C26, as claimed.  When the worker has left the read loop and exits      *)
(* normally, it has written a response for every complete message of the   *)
(* stream, and none for anything after them.                               *)
(* Fails: a process_frame header whose format is not "binary" gets no      *)
(* response, and a length prefix of 0 ends the loop ahead of the complete  *)
(* messages that follow it.                                                *)
(***************************************************************************)
C26_ExitsHavingAnsweredAll ==
    pc = "done" =>
      /\ \A k \in 1..Len(sent) : LinesFor(k) # {}
      /\ \A i \in 1..Len(out) : outMsg[i] <= Len(sent)

\* the termination half of C26: once the stream is closed the worker leaves
\* the loop, by a normal exit or by the fatal one
C26_Terminates == closed ~> ~Running

(***************************************************************************)
(* C27, as claimed.  check_full_body_visible returns a pair (flag,         *)
(* confidence) for every input, a missing landmark list included.          *)
(* Fails: for a missing list it returns the bare boolean False.            *)
(***************************************************************************)
C27_AlwaysAPair ==
    fout.k = "full" => fout.r.k = "pair"

====
